---------------------------- MODULE Spec2Model ----------------------------
(***************************************************************************)
(* Model of simple-live-server/server.js: the streaming HTML injection     *)
(* transform, request path resolution, the HTTP request handler and the    *)
(* reload broadcast.                                                       *)
(*                                                                         *)
(* Text is a sequence of characters (UTF-16 code units of a JS string),    *)
(* a chunk is a sequence of bytes.  Characters and bytes are named by      *)
(* strings: an ASCII character and its byte carry the same name.           *)
(***************************************************************************)
EXTENDS Integers, Sequences, FiniteSets, TLC

VARIABLES
    input,      \* the bytes of the file piped into the transform
    pos,        \* number of input bytes already delivered to _transform
    buffer,     \* HtmlInjectTransform._buffer (text)
    injected,   \* HtmlInjectTransform._injected
    out,        \* bytes pushed downstream so far, concatenated
    phase,      \* "streaming" until _flush has run, then "ended"
    flips,      \* history: number of times _injected went from false to true
    splitChar   \* history: some chunk ended inside a multi-byte character

tvars == <<input, pos, buffer, injected, out, phase, flips, splitChar>>

VARIABLES
    urlPathname,  \* the argument of resolveRequestToFilePath
    resolved,     \* its result, once pathPc = "done"
    pathPc        \* "call" before the call, "done" after it

pvars == <<urlPathname, resolved, pathPc>>

VARIABLES
    hPc,          \* "idle", "stat" (fs.stat pending), "streaming", "ended",
                  \* "crashed" (the handler threw)
    reqUrl,       \* req.url (<<>> when missing)
    reqMethod,    \* req.method
    statKind,     \* what the file system holds at the resolved location
    filePath,     \* the handler's filePath
    written,      \* the status codes given to res.writeHead, in order
    contentType,  \* the Content-Type header of the last writeHead
    resEnded,     \* res.end() has been called, or the pipe has ended res
    piped,        \* "raw": readStream.pipe(res); "inject": through the transform
    readError,    \* history: the read stream has emitted 'error'
    statCalls     \* history: calls of fs.stat made for this request

hvars == <<hPc, reqUrl, reqMethod, statKind, filePath, written, contentType,
           resEnded, piped, readError, statCalls>>

VARIABLES
    clients,      \* wss.clients, in insertion (iteration) order
    readyState,   \* client.readyState of each client
    linkUp,       \* whether an open client's connection still carries frames
    inbox,        \* the messages each client has received
    events,       \* history: number of watch events handled
    broadcasts,   \* history: number of broadcastReload calls
    lastSent,     \* history: the send calls of the last broadcast, in order
    uncaught,     \* an exception has left a callback uncaught: the process
                  \* has ended
    eventLog      \* history: the types of the watch events, in order

\* the reload state a request handler cannot touch
nrest == <<clients, readyState, linkUp, inbox, events, broadcasts, lastSent,
           eventLog>>

nvars == <<nrest, uncaught>>

vars == <<tvars, pvars, hvars, nvars>>

\* null, the result of a rejected resolution
Rejected == [rejected |-> TRUE, path |-> <<>>]

\* The state of a component that takes no part in a specification
TransformIdle ==
    /\ input = <<>>
    /\ pos = 0
    /\ buffer = <<>>
    /\ injected = FALSE
    /\ out = <<>>
    /\ phase = "unused"
    /\ flips = 0
    /\ splitChar = FALSE

PathIdle ==
    /\ urlPathname = <<>>
    /\ resolved = Rejected
    /\ pathPc = "unused"

NumClients == 3
ClientIds == 1..NumClients

HttpIdle ==
    /\ hPc = "unused"
    /\ reqUrl = <<>>
    /\ reqMethod = "GET"
    /\ statKind = "none"
    /\ filePath = <<>>
    /\ written = <<>>
    /\ contentType = <<>>
    /\ resEnded = FALSE
    /\ piped = "none"
    /\ readError = FALSE
    /\ statCalls = 0

NotifyIdle ==
    /\ clients = <<>>
    /\ readyState = [c \in ClientIds |-> "NONE"]
    /\ linkUp = [c \in ClientIds |-> FALSE]
    /\ inbox = [c \in ClientIds |-> <<>>]
    /\ events = 0
    /\ broadcasts = 0
    /\ lastSent = <<>>
    /\ uncaught = FALSE
    /\ eventLog = <<>>

----------------------------------------------------------------------------
(* Generic helpers on sequences *)

Min(a, b) == IF a < b THEN a ELSE b

RECURSIVE Repeat(_, _)
Repeat(s, n) == IF n = 0 THEN <<>> ELSE s \o Repeat(s, n - 1)

StartsWith(s, p) == Len(s) >= Len(p) /\ SubSeq(s, 1, Len(p)) = p

\* String.prototype.slice(from) / slice(0, to) with 0-based, end-exclusive
\* indices clamped to the length
SliceTo(s, n) == SubSeq(s, 1, Min(n, Len(s)))
SliceFrom(s, n) == SubSeq(s, Min(n, Len(s)) + 1, Len(s))

\* String.prototype.indexOf: 1-based position of the first occurrence, 0 if none
IndexOf(s, p) ==
    LET hits == {i \in 1..(Len(s) - Len(p) + 1) : SubSeq(s, i, i + Len(p) - 1) = p}
    IN  IF hits = {} THEN 0 ELSE CHOOSE i \in hits : \A j \in hits : i <= j

\* String.prototype.includes
Includes(s, p) == IndexOf(s, p) # 0

\* number of (possibly overlapping) occurrences of p in s
Occurrences(s, p) ==
    Cardinality({i \in 1..(Len(s) - Len(p) + 1) : SubSeq(s, i, i + Len(p) - 1) = p})

----------------------------------------------------------------------------
(* Request path resolution.  A path is a sequence of one-character strings. *)

\* TARGET_DIR = path.join(__dirname, 'target'): an absolute directory, here
\* /d/target with "target" spelled as one character
TARGET_DIR == <<"/", "d", "/", "t">>

\* value.split(c)[0]: the part before the first c, the whole when there is none
BeforeFirst(s, c) ==
    LET i == IndexOf(s, <<c>>) IN IF i = 0 THEN s ELSE SubSeq(s, 1, i - 1)

\* the segments between the separators c (String.prototype.split)
RECURSIVE SplitOn(_, _)
SplitOn(s, c) ==
    LET i == IndexOf(s, <<c>>) IN
    IF i = 0 THEN <<s>>
    ELSE <<SubSeq(s, 1, i - 1)>> \o SplitOn(SubSeq(s, i + 1, Len(s)), c)

\* Array.prototype.join('/')
RECURSIVE JoinSegs(_)
JoinSegs(segs) ==
    IF segs = <<>> THEN <<>>
    ELSE IF Len(segs) = 1 THEN segs[1]
    ELSE segs[1] \o <<"/">> \o JoinSegs(Tail(segs))

\* the value of a hexadecimal digit, -1 for any other character
HexVal(c) ==
    CASE c = "0" -> 0
      [] c = "2" -> 2
      [] c = "e" -> 14
      [] c = "f" -> 15
      [] OTHER -> -1

\* the character of an ASCII code
AsciiChar(n) ==
    CASE n = 0 -> "NUL"
      [] n = 34 -> "dquote"
      [] n = 46 -> "."
      [] n = 47 -> "/"
      [] OTHER -> "other"

\* the byte an escape %XY at the head of s stands for, -1 when s does not
\* start with a well-formed escape
EscapeByte(s) ==
    IF Len(s) >= 3 /\ s[1] = "%" /\ HexVal(s[2]) >= 0 /\ HexVal(s[3]) >= 0
    THEN 16 * HexVal(s[2]) + HexVal(s[3])
    ELSE -1

\* number of continuation bytes a UTF-8 lead byte announces, -1 when the byte
\* cannot start a sequence
Continuations(b) ==
    IF b >= 194 /\ b <= 223 THEN 1
    ELSE IF b >= 224 /\ b <= 239 THEN 2
    ELSE IF b >= 240 /\ b <= 244 THEN 3
    ELSE -1

\* whether s starts with n escapes that are continuation bytes (0x80..0xBF)
RECURSIVE HasContinuations(_, _)
HasContinuations(s, n) ==
    IF n = 0 THEN TRUE
    ELSE /\ EscapeByte(s) >= 128
         /\ EscapeByte(s) <= 191
         /\ HasContinuations(SubSeq(s, 4, Len(s)), n - 1)

\* decodeURIComponent(value): [ok |-> FALSE] stands for the URIError thrown
\* on a malformed escape or on escapes that are not valid UTF-8
RECURSIVE DecodeURIComponent(_)
DecodeURIComponent(s) ==
    IF s = <<>> THEN [ok |-> TRUE, text |-> <<>>]
    ELSE IF Head(s) # "%"
    THEN LET r == DecodeURIComponent(Tail(s)) IN
         [ok |-> r.ok, text |-> <<Head(s)>> \o r.text]
    ELSE LET b == EscapeByte(s) IN
         IF b < 0 THEN [ok |-> FALSE, text |-> <<>>]
         ELSE IF b < 128
         THEN LET r == DecodeURIComponent(SubSeq(s, 4, Len(s))) IN
              [ok |-> r.ok, text |-> <<AsciiChar(b)>> \o r.text]
         ELSE LET n == Continuations(b) IN
              IF n < 0 \/ ~HasContinuations(SubSeq(s, 4, Len(s)), n)
              THEN [ok |-> FALSE, text |-> <<>>]
              ELSE LET r == DecodeURIComponent(SubSeq(s, 4 + 3 * n, Len(s))) IN
                   [ok |-> r.ok, text |-> <<"nonascii">> \o r.text]

\* a decoding that gives the empty string for a value that cannot be decoded
DecodeOrEmpty(value) ==
    LET r == DecodeURIComponent(value) IN IF r.ok THEN r.text ELSE <<>>

safeDecodeURIComponent(value) ==
    LET r == DecodeURIComponent(value) IN IF r.ok THEN r.text ELSE value

\* normalizeString of an absolute path: '.' and empty segments are dropped,
\* '..' removes the segment before it, and is dropped at the root
RECURSIVE NormalizeSegs(_, _)
NormalizeSegs(segs, acc) ==
    IF segs = <<>> THEN acc
    ELSE LET g == Head(segs) IN
         IF g = <<>> \/ g = <<".">> THEN NormalizeSegs(Tail(segs), acc)
         ELSE IF g = <<".", ".">>
         THEN NormalizeSegs(Tail(segs),
                            IF acc = <<>> THEN acc ELSE SubSeq(acc, 1, Len(acc) - 1))
         ELSE NormalizeSegs(Tail(segs), Append(acc, g))

\* path.normalize of an absolute POSIX path: a trailing separator is kept
PathNormalize(p) ==
    LET body == JoinSegs(NormalizeSegs(SplitOn(p, "/"), <<>>))
        trailing == p[Len(p)] = "/"
    IN  IF body = <<>> THEN <<"/">>
        ELSE <<"/">> \o body \o (IF trailing THEN <<"/">> ELSE <<>>)

\* path.join(a, b) for an absolute a: an empty b is skipped
PathJoin(a, b) ==
    IF b = <<>> THEN PathNormalize(a) ELSE PathNormalize(a \o <<"/">> \o b)

\* the segments of path.resolve(p) for an absolute p
ResolvedSegs(p) == NormalizeSegs(SplitOn(p, "/"), <<>>)

\* number of leading segments two paths share
RECURSIVE CommonSegs(_, _)
CommonSegs(a, b) ==
    IF a = <<>> \/ b = <<>> \/ Head(a) # Head(b) THEN 0
    ELSE 1 + CommonSegs(Tail(a), Tail(b))

\* path.relative(from, to) for absolute POSIX paths
PathRelative(from, to) ==
    LET f == ResolvedSegs(from)
        t == ResolvedSegs(to)
        k == CommonSegs(f, t)
    IN  JoinSegs([i \in 1..(Len(f) - k) |-> <<".", ".">>]
                 \o SubSeq(t, k + 1, Len(t)))

\* path.isAbsolute
PathIsAbsolute(p) == Len(p) > 0 /\ p[1] = "/"

\* the test without the check of the leading '..'
IsPathInsideNoDotDot(parent, child) ==
    LET relative == PathRelative(parent, child) IN
    relative # <<>> /\ ~PathIsAbsolute(relative)

isPathInside(parent, child) ==
    LET relative == PathRelative(parent, child) IN
    /\ relative # <<>>
    /\ ~StartsWith(relative, <<".", ".">>)
    /\ ~PathIsAbsolute(relative)

\* the candidate of a resolution that has no default document
CandidateNoDefault(url) ==
    PathJoin(TARGET_DIR,
             safeDecodeURIComponent(BeforeFirst(BeforeFirst(url, "?"), "#")))

\* the candidate of line 113
Candidate(url) ==
    LET cleanPath == BeforeFirst(BeforeFirst(url, "?"), "#")
        normalized == IF cleanPath = <<"/">>
                      THEN <<"/", "i", "n", "d", "e", "x", ".", "h", "t", "m", "l">>
                      ELSE cleanPath
        decoded == safeDecodeURIComponent(normalized)
    IN  PathJoin(TARGET_DIR, decoded)

resolveRequestToFilePath(url) ==
    LET candidate == Candidate(url) IN
    IF ~isPathInside(TARGET_DIR, candidate) THEN Rejected
    ELSE [rejected |-> FALSE, path |-> candidate]

PathChars == {"/", ".", "%", "2", "e", "f", "?", "#"}

MaxPathLen == 5

\* some longer targets: encoded dot segments and separators
SamplePaths == {
    <<"%", "2", "e", "%", "2", "e">>,
    <<"/", "%", "2", "e", "%", "2", "e">>,
    <<"/", "%", "2", "e", "%", "2", "e", "/", "f">>,
    <<"/", ".", ".", "%", "2", "f", ".", ".", "%", "2", "f", "e">>,
    <<"/", "f", "/", "%", "2", "e", "%", "2", "e", "/", "e">>,
    <<"/", "e", "%", "2", "f", "%", "2", "e", "%", "2", "e", "?", "f">>,
    <<"/", "%", "e", "2", "%", "2", "e", "%", "2", "e">>}

\* the handler passes req.url on only when it is not empty
PathInit ==
    /\ \/ \E n \in 1..MaxPathLen : urlPathname \in [1..n -> PathChars]
       \/ urlPathname \in SamplePaths
    /\ resolved = Rejected
    /\ pathPc = "call"

Resolve ==
    /\ pathPc = "call"
    /\ resolved' = resolveRequestToFilePath(urlPathname)
    /\ pathPc' = "done"
    /\ UNCHANGED <<urlPathname, tvars, hvars, nvars>>

PathNext == Resolve

InitPath == PathInit /\ TransformIdle /\ HttpIdle /\ NotifyIdle

SpecPath == InitPath /\ [][PathNext]_vars

----------------------------------------------------------------------------
(* Claims about request path resolution *)

\* p names a location strictly below the served root, without any '.',
\* '..' or empty segment on the way
LexicallyInside(p) ==
    /\ StartsWith(p, TARGET_DIR \o <<"/">>)
    /\ LET rest == SplitOn(SubSeq(p, Len(TARGET_DIR) + 2, Len(p)), "/") IN
       /\ rest[1] # <<>>
       /\ \A i \in 1..Len(rest) :
            /\ rest[i] # <<".">>
            /\ rest[i] # <<".", ".">>
            /\ (rest[i] = <<>> => i = Len(rest))

\* C5: a request path, raw or percent-encoded, whose normalized join lies
\* outside the served root is rejected, and every path returned lies
\* lexically inside the root and is not the root.
C5_Confined ==
    pathPc = "done" =>
        /\ (~LexicallyInside(Candidate(urlPathname)) => resolved = Rejected)
        /\ (resolved # Rejected => LexicallyInside(resolved.path))

\* a percent-encoded '..' that leaves the root has been rejected
C5_Witness ==
    /\ pathPc = "done"
    /\ Includes(urlPathname, <<"%", "2", "e">>)
    /\ ~StartsWith(Candidate(urlPathname), TARGET_DIR)
    /\ resolved = Rejected

\* C17: every request path whose normalized join lies strictly inside the
\* root is accepted: a path is rejected only when its join is the root
\* itself or lies outside it.
C17_InsideAccepted ==
    (pathPc = "done" /\ LexicallyInside(Candidate(urlPathname))) =>
        resolved = [rejected |-> FALSE, path |-> Candidate(urlPathname)]

\* The statement of C17 for the paths whose join, relative to the root,
\* does not begin with two dots: this holds.
InsideAcceptedLemma ==
    (pathPc = "done" /\ LexicallyInside(Candidate(urlPathname))
       /\ ~StartsWith(Candidate(urlPathname), TARGET_DIR \o <<"/", ".", ".">>)) =>
        resolved = [rejected |-> FALSE, path |-> Candidate(urlPathname)]

\* the request path: the target without its query or fragment suffix
CleanPath == BeforeFirst(BeforeFirst(urlPathname, "?"), "#")

\* the default document of the served root
IndexDocument ==
    TARGET_DIR \o <<"/", "i", "n", "d", "e", "x", ".", "h", "t", "m", "l">>

\* C12 as stated: an empty request path and the root path '/', after the
\* query or fragment suffix is stripped, both resolve to the default
\* document.
C12_EmptyAndRoot ==
    (pathPc = "done" /\ CleanPath \in {<<>>, <<"/">>}) =>
        resolved = [rejected |-> FALSE, path |-> IndexDocument]

\* C12, amended: the root path '/', after the query or fragment suffix is
\* stripped, resolves to the default document, which is the result for
\* '/index.html'; an empty request path is not mapped to it and is rejected.
C12_RootOnly ==
    pathPc = "done" =>
        /\ (CleanPath = <<"/">> =>
              /\ resolved = [rejected |-> FALSE, path |-> IndexDocument]
              /\ resolved = resolveRequestToFilePath(
                     <<"/", "i", "n", "d", "e", "x", ".", "h", "t", "m", "l">>))
        /\ (CleanPath = <<>> => resolved = Rejected)

\* '/' followed by a query has been resolved to the default document
C12_Witness ==
    /\ pathPc = "done"
    /\ Len(urlPathname) > 1
    /\ urlPathname[2] = "?"
    /\ CleanPath = <<"/">>
    /\ resolved = [rejected |-> FALSE, path |-> IndexDocument]

\* decodeURIComponent throws on the request path
Malformed == ~DecodeURIComponent(CleanPath).ok

\* the join of the request path, as it was received, onto the root
RawCandidate == PathJoin(TARGET_DIR, CleanPath)

\* C15: a request path with malformed percent-encoding is resolved all the
\* same: the path is used as it was received, and the confinement check
\* decides on its join as on any other, so the result is that join when
\* the check accepts it, which puts it inside the root, and Rejected
\* otherwise.
C15_MalformedKeptRaw ==
    (pathPc = "done" /\ Malformed) =>
        /\ resolved = IF isPathInside(TARGET_DIR, RawCandidate)
                      THEN [rejected |-> FALSE, path |-> RawCandidate]
                      ELSE Rejected
        /\ (resolved = Rejected \/ LexicallyInside(resolved.path))

\* a path that ends in a lone '%' has been resolved to the file of that name
C15_Witness ==
    /\ pathPc = "done"
    /\ Malformed
    /\ resolved # Rejected
    /\ resolved.path = RawCandidate
    /\ resolved.path[Len(resolved.path)] = "%"

\* a malformed path that climbs out of the root has been rejected
C15_WitnessRejected ==
    /\ pathPc = "done"
    /\ Malformed
    /\ ~StartsWith(RawCandidate, TARGET_DIR)
    /\ resolved = Rejected

----------------------------------------------------------------------------
(* HtmlInjectTransform *)

\* The literal '</body>', written with the four letters of "body" and the
\* slash as one character: three distinct characters, as the seven of the
\* source are distinct.
Marker == <<"<", "/body", ">">>

\* LIVE_RELOAD_SCRIPT: a newline, the script element (one character here),
\* a newline.  It holds no '</body>' and no '$'.
LIVE_RELOAD_SCRIPT == <<"LF", "SCRIPT", "LF">>

\* The replacement of line 54: `${LIVE_RELOAD_SCRIPT}\n</body>`
Replacement == LIVE_RELOAD_SCRIPT \o <<"LF">> \o Marker

\* 64 * 1024 and 32 * 1024 of lines 63-65, scaled by 1/16384.  The scaling
\* keeps SliceLen = HighWaterMark / 2 and
\* HighWaterMark + 1 - SliceLen >= Len(Marker) - 1.
HighWaterMark == 4
SliceLen == 2

\* Characters of the modelled documents: the marker's characters, another
\* ASCII character and U+00E9, whose UTF-8 encoding has two bytes.
AsciiChars == {"<", "/body", ">", "x"}
Chars == AsciiChars \cup {"u00E9"}

ContinuationBytes == {"xA9", "xBF", "xBD"}

\* Buffer.from(string, 'utf8') of one character: what push(string) writes
Utf8EncodeChar(c) ==
    CASE c = "u00E9" -> <<"xC3", "xA9">>
      [] c = "uFFFD" -> <<"xEF", "xBF", "xBD">>
      [] OTHER -> <<c>>

RECURSIVE Utf8Encode(_)
Utf8Encode(text) ==
    IF text = <<>> THEN <<>>
    ELSE Utf8EncodeChar(Head(text)) \o Utf8Encode(Tail(text))

\* chunk.toString('utf8'): a complete sequence decodes to its character; a
\* lead byte whose continuation is not in this chunk, and a continuation
\* byte without its lead, each decode to U+FFFD.
RECURSIVE Utf8Decode(_)
Utf8Decode(bytes) ==
    IF bytes = <<>> THEN <<>>
    ELSE LET b == Head(bytes) IN
         IF b = "xC3"
         THEN IF Len(bytes) >= 2 /\ bytes[2] = "xA9"
              THEN <<"u00E9">> \o Utf8Decode(SubSeq(bytes, 3, Len(bytes)))
              ELSE <<"uFFFD">> \o Utf8Decode(Tail(bytes))
         ELSE IF b = "xEF"
         THEN IF Len(bytes) >= 3 /\ bytes[2] = "xBF" /\ bytes[3] = "xBD"
              THEN <<"uFFFD">> \o Utf8Decode(SubSeq(bytes, 4, Len(bytes)))
              ELSE <<"uFFFD">> \o Utf8Decode(Tail(bytes))
         ELSE IF b \in ContinuationBytes
         THEN <<"uFFFD">> \o Utf8Decode(Tail(bytes))
         ELSE <<b>> \o Utf8Decode(Tail(bytes))

\* String.prototype.replace(pattern, replacement) with a string pattern: the
\* first occurrence only
ReplaceFirst(s, p, r) ==
    LET i == IndexOf(s, p) IN
    IF i = 0 THEN s
    ELSE SubSeq(s, 1, i - 1) \o r \o SubSeq(s, i + Len(p), Len(s))

\* Bounds of the checked streams
MaxLen == 6        \* characters of a document drawn from all of Chars
MaxChunk == 4      \* bytes of one chunk handed to _transform
MaxLong == 16      \* characters of a long document of filler around a marker

\* long documents: filler alone, and filler around one marker
LongDocs ==
    {Repeat(<<"x">>, n) : n \in 0..MaxLong}
    \cup UNION {{Repeat(<<"x">>, i) \o Marker \o Repeat(<<"x">>, n - i) :
                    i \in 0..n} : n \in 0..(MaxLong - Len(Marker))}

\* what _transform does with the text of one chunk
\* (returns the new _buffer, _injected and the text pushed, <<>> if none)
TransformStep(buf, inj, text) ==
    LET b == buf \o text IN
    IF ~inj /\ Includes(b, Marker)
    THEN [buffer |-> <<>>, injected |-> TRUE,
          pushed |-> ReplaceFirst(b, Marker, Replacement)]
    ELSE IF Len(b) > HighWaterMark /\ ~inj
    THEN [buffer |-> SliceFrom(b, SliceLen), injected |-> inj,
          pushed |-> SliceTo(b, SliceLen)]
    ELSE [buffer |-> b, injected |-> inj, pushed |-> <<>>]

\* what _flush does
FlushStep(buf, inj) ==
    IF ~inj
    THEN [buffer |-> <<>>, injected |-> TRUE,
          pushed |-> buf \o LIVE_RELOAD_SCRIPT]
    ELSE IF Len(buf) > 0
    THEN [buffer |-> <<>>, injected |-> inj, pushed |-> buf]
    ELSE [buffer |-> buf, injected |-> inj, pushed |-> <<>>]

TransformInit ==
    /\ \/ \E n \in 0..MaxLen : \E d \in [1..n -> Chars] : input = Utf8Encode(d)
       \/ \E d \in LongDocs : input = Utf8Encode(d)
    /\ pos = 0
    /\ buffer = <<>>
    /\ injected = FALSE
    /\ out = <<>>
    /\ phase = "streaming"
    /\ flips = 0
    /\ splitChar = FALSE

\* _transform(chunk): the next n bytes of the file arrive as one chunk
Transform(n) ==
    /\ phase = "streaming"
    /\ pos + n <= Len(input)
    /\ LET chunk == SubSeq(input, pos + 1, pos + n)
           r == TransformStep(buffer, injected, Utf8Decode(chunk))
       IN  /\ buffer' = r.buffer
           /\ injected' = r.injected
           /\ out' = out \o Utf8Encode(r.pushed)
           /\ flips' = IF ~injected /\ r.injected THEN flips + 1 ELSE flips
    /\ splitChar' = (splitChar \/ (pos + n < Len(input) /\ input[pos + n] = "xC3"))
    /\ pos' = pos + n
    /\ UNCHANGED <<input, phase, pvars, hvars, nvars>>

\* _flush(): the file has been read to its end
Flush ==
    /\ phase = "streaming"
    /\ pos = Len(input)
    /\ LET r == FlushStep(buffer, injected)
       IN  /\ buffer' = r.buffer
           /\ injected' = r.injected
           /\ out' = out \o Utf8Encode(r.pushed)
           /\ flips' = IF ~injected /\ r.injected THEN flips + 1 ELSE flips
    /\ phase' = "ended"
    /\ UNCHANGED <<input, pos, splitChar, pvars, hvars, nvars>>

TransformNext ==
    \/ \E n \in 1..MaxChunk : Transform(n)
    \/ Flush

InitTransform == TransformInit /\ PathIdle /\ HttpIdle /\ NotifyIdle

SpecTransform == InitTransform /\ [][TransformNext]_vars

----------------------------------------------------------------------------
(* Claims about HtmlInjectTransform *)

\* the document the file holds (the file is valid UTF-8)
Doc == Utf8Decode(input)

\* s with ins inserted before its i-th element (after the last for i = Len(s) + 1)
InsertAt(s, i, ins) == SubSeq(s, 1, i - 1) \o ins \o SubSeq(s, i, Len(s))

\* the output the specification asks for: the snippet and a newline before
\* the first marker, or the snippet after the last byte when there is none
Expected(doc) ==
    IF Includes(doc, Marker)
    THEN InsertAt(doc, IndexOf(doc, Marker), LIVE_RELOAD_SCRIPT \o <<"LF">>)
    ELSE doc \o LIVE_RELOAD_SCRIPT

\* the output of the transform fed the whole file as a single chunk
OneChunkOutput(bytes) ==
    LET t == IF bytes = <<>> THEN [buffer |-> <<>>, injected |-> FALSE, pushed |-> <<>>]
             ELSE TransformStep(<<>>, FALSE, Utf8Decode(bytes))
        f == FlushStep(t.buffer, t.injected)
    IN  Utf8Encode(t.pushed) \o Utf8Encode(f.pushed)

\* C1: a document with exactly one marker comes out with the snippet and a
\* newline inserted immediately before the marker, whatever the chunking, and
\* the snippet occurs exactly once in the output.
C1_InjectBeforeMarker ==
    (phase = "ended" /\ Occurrences(Doc, Marker) = 1) =>
        /\ out = Utf8Encode(Expected(Doc))
        /\ Occurrences(out, Utf8Encode(LIVE_RELOAD_SCRIPT)) = 1

\* C2: a document without a marker comes out followed by the snippet,
\* whatever the chunking; the empty document comes out as the snippet alone.
C2_AppendWhenNoMarker ==
    (phase = "ended" /\ ~Includes(Doc, Marker)) =>
        out = input \o Utf8Encode(LIVE_RELOAD_SCRIPT)

\* C3: the total output does not depend on the chunking (it is the output
\* of the single-chunk run) and holds one correctly placed injection.
C3_ChunkingIndependent ==
    phase = "ended" =>
        /\ out = OneChunkOutput(input)
        /\ out = Utf8Encode(Expected(Doc))

\* C4: _injected goes from false to true exactly once and never back; once
\* it is true a _transform call emits and replaces nothing, and the stream's
\* output is the input with the snippet at the first marker only.
C4_InjectedOnce ==
    [][/\ (injected => injected')
       /\ flips' <= 1
       /\ (injected /\ phase' = "streaming" => out' = out)
       /\ (phase' = "ended" => flips' = 1 /\ out' = Utf8Encode(Expected(Doc)))]_vars

\* C9: the accumulation buffer never holds more than the high-water mark
\* plus one chunk, whatever the length of the input.
C9_BufferBounded == Len(buffer) <= HighWaterMark + MaxChunk

\* C10: when a chunk boundary falls inside a multi-byte character, the
\* output is still the input bytes with the snippet inserted at one position.
C10_SplitCharPreserved ==
    (phase = "ended" /\ splitChar) =>
        \E i \in 1..(Len(input) + 1) :
            \/ out = InsertAt(input, i, Utf8Encode(LIVE_RELOAD_SCRIPT \o <<"LF">>))
            \/ out = InsertAt(input, i, Utf8Encode(LIVE_RELOAD_SCRIPT))

\* The statements of C1 to C4 restricted to the runs in which every chunk
\* boundary is a character boundary: these hold.
\* The buffer also outgrows the bound before any marker has been seen.
BoundedBeforeInjection == ~injected => Len(buffer) <= HighWaterMark + MaxChunk

WholeCharsLemma ==
    (phase = "ended" /\ ~splitChar) =>
        /\ out = Utf8Encode(Expected(Doc))
        /\ out = OneChunkOutput(input)
        /\ Occurrences(out, Utf8Encode(LIVE_RELOAD_SCRIPT)) = 1
        /\ flips = 1

----------------------------------------------------------------------------
(* The HTTP request handler *)

\* String.prototype.toLowerCase, on the letters the requests below use
LowerChar(c) ==
    CASE c = "H" -> "h"
      [] c = "T" -> "t"
      [] c = "M" -> "m"
      [] c = "L" -> "l"
      [] OTHER -> c

ToLowerCase(s) == [i \in 1..Len(s) |-> LowerChar(s[i])]

\* 1-based position of the last c in s, 0 if none
LastIndexOf(s, c) ==
    LET hits == {i \in 1..Len(s) : s[i] = c}
    IN  IF hits = {} THEN 0 ELSE CHOOSE i \in hits : \A j \in hits : j <= i

\* the last segment of a path, trailing separators ignored
RECURSIVE Basename(_)
Basename(p) ==
    IF p = <<>> THEN <<>>
    ELSE IF p[Len(p)] = "/" THEN Basename(SubSeq(p, 1, Len(p) - 1))
    ELSE SubSeq(p, LastIndexOf(p, "/") + 1, Len(p))

\* path.extname: from the last '.' of the last segment, '' when there is
\* none, when it is the segment's first character, or for '..'
PathExtname(p) ==
    LET base == Basename(p)
        d == LastIndexOf(base, ".")
    IN  IF d <= 1 \/ base = <<".", ".">> THEN <<>>
        ELSE SubSeq(base, d, Len(base))

\* MIME_TYPES[ext] || 'application/octet-stream'
MimeType(ext) ==
    CASE ext = <<".", "h", "t", "m", "l">> -> "text/html; charset=utf-8"
      [] ext = <<".", "c", "s", "s">> -> "text/css; charset=utf-8"
      [] ext = <<".", "j", "s">> -> "application/javascript; charset=utf-8"
      [] ext = <<".", "j", "s", "o", "n">> -> "application/json; charset=utf-8"
      [] ext = <<".", "p", "n", "g">> -> "image/png"
      [] ext = <<".", "j", "p", "g">> -> "image/jpeg"
      [] ext = <<".", "j", "p", "e", "g">> -> "image/jpeg"
      [] ext = <<".", "s", "v", "g">> -> "image/svg+xml"
      [] OTHER -> "application/octet-stream"

TextPlain == "text/plain; charset=utf-8"

\* Requests: every target of up to MaxUrlLen characters of PathChars, and
\* some longer targets that name files with extensions
MaxUrlLen == 4

SampleUrls == {
    <<"/", "i", "n", "d", "e", "x", ".", "h", "t", "m", "l">>,
    <<"/", "A", ".", "H", "T", "M", "L">>,
    <<"/", "s", ".", "c", "s", "s">>,
    <<"/", "a", ".", "j", "s", "?", "v", "2">>,
    <<"/", "d", ".", "j", "s", "o", "n">>,
    <<"/", "m", ".", "p", "n", "g">>,
    <<"/", "p", ".", "j", "p", "g">>,
    <<"/", "p", ".", "j", "p", "e", "g">>,
    <<"/", "i", ".", "s", "v", "g">>,
    <<"/", "x", ".", "b", "i", "n">>,
    <<"/", "n", "o", "e", "x", "t">>,
    <<"/", ".", "h", "t", "m", "l">>,
    <<"/", ".", ".", "/", ".", ".", "/", "e", "t", "c", "/", "p", "a", "s", "s", "w", "d">>,
    <<"/", "%", "2", "e", "%", "2", "e", "/", "s", ".", "c", "s", "s">>,
    <<"/", "a", "%", "0", "0", ".", "p", "n", "g">>,
    <<"/", ".", ".", "n", "o", "t", "e", "s", ".", "h", "t", "m", "l">>}

Methods == {"GET", "POST"}
StatKinds == {"file", "dir", "none"}

\* the files the served directory can hold, as bytes: an empty file, one
\* with a two-byte character, one with the marker before such a character
FileSamples == {
    <<>>,
    <<"x", "xC3", "xA9">>,
    <<"<", "/body", ">", "xC3", "xA9">>}

HttpInit ==
    /\ hPc = "idle"
    /\ reqUrl = <<>>
    /\ reqMethod = "GET"
    /\ statKind = "none"
    /\ filePath = <<>>
    /\ written = <<>>
    /\ contentType = <<>>
    /\ resEnded = FALSE
    /\ piped = "none"
    /\ readError = FALSE
    /\ statCalls = 0

\* a handler that checks the confinement of the path before the method
SyncStatusPathFirst(url, method) ==
    IF url = <<>> THEN 400
    ELSE IF resolveRequestToFilePath(url) = Rejected THEN 403
    ELSE IF method # "GET" THEN 405
    ELSE 0

\* the checks the handler makes before it turns to the file system, in the
\* order of the code: the error status it answers with, or 0 to go on
SyncStatus(url, method) ==
    IF url = <<>> THEN 400
    ELSE IF method # "GET" THEN 405
    ELSE IF resolveRequestToFilePath(url) = Rejected THEN 403
    ELSE 0

\* fs.stat validates its path argument before it starts the operation and
\* throws, instead of calling back, when the path holds a NUL character
FsStatThrows(p) == \E i \in 1..Len(p) : p[i] = "NUL"

\* a request arrives and the handler runs up to its return or to fs.stat;
\* kind is what the file system holds at the location the target names
\* (a path with a trailing separator never names a regular file)
Request(url, method, kind) ==
    /\ hPc = "idle"
    /\ ~uncaught
    /\ (Candidate(url)[Len(Candidate(url))] = "/" => kind # "file")
    /\ reqUrl' = url
    /\ reqMethod' = method
    /\ statKind' = kind
    /\ LET status == SyncStatus(url, method) IN
       IF status # 0
       THEN /\ written' = Append(written, status)
            /\ contentType' = TextPlain
            /\ resEnded' = TRUE
            /\ hPc' = "ended"
            /\ UNCHANGED <<filePath, statCalls, uncaught>>
       ELSE /\ filePath' = resolveRequestToFilePath(url).path
            /\ statCalls' = statCalls + 1
            /\ IF FsStatThrows(filePath')
               THEN /\ uncaught' = TRUE
                    /\ hPc' = "crashed"
               ELSE /\ hPc' = "stat"
                    /\ UNCHANGED uncaught
            /\ UNCHANGED <<written, contentType, resEnded>>
    /\ UNCHANGED <<piped, readError, tvars, pvars, nrest>>

\* a handler that pipes every file through the transform
InjectsIntoEveryFile(ext) == TRUE

\* whether the read stream is piped through HtmlInjectTransform
UsesInjection(ext) == ext = <<".", "h", "t", "m", "l">>

\* the callback of fs.stat; on a regular file the response is started and
\* the read stream of the file is piped into it
StatCallback ==
    /\ hPc = "stat"
    /\ IF statKind # "file"
       THEN /\ written' = Append(written, 404)
            /\ contentType' = TextPlain
            /\ resEnded' = TRUE
            /\ hPc' = "ended"
            /\ UNCHANGED <<piped, input>>
       ELSE /\ written' = Append(written, 200)
            /\ contentType' = MimeType(ToLowerCase(PathExtname(filePath)))
            /\ hPc' = "streaming"
            /\ piped' = IF UsesInjection(ToLowerCase(PathExtname(filePath)))
                        THEN "inject" ELSE "raw"
            /\ input' \in FileSamples
            /\ UNCHANGED resEnded
    /\ UNCHANGED <<reqUrl, reqMethod, statKind, filePath, readError, statCalls,
                   pos, buffer, injected, out, phase, flips, splitChar,
                   pvars, nvars>>

\* res.headersSent: true from the first writeHead on
HeadersSent == written # <<>>

\* the read stream emits the next n bytes of the file as one chunk: the
\* chunk goes to the response, or to the transform and what it pushes goes on
ReadChunk(n) ==
    /\ hPc = "streaming"
    /\ pos + n <= Len(input)
    /\ LET chunk == SubSeq(input, pos + 1, pos + n) IN
       IF piped = "inject"
       THEN LET r == TransformStep(buffer, injected, Utf8Decode(chunk)) IN
            /\ buffer' = r.buffer
            /\ injected' = r.injected
            /\ out' = out \o Utf8Encode(r.pushed)
       ELSE /\ out' = out \o chunk
            /\ UNCHANGED <<buffer, injected>>
    /\ splitChar' = (splitChar \/ (pos + n < Len(input) /\ input[pos + n] = "xC3"))
    /\ pos' = pos + n
    /\ UNCHANGED <<input, phase, flips, pvars, hvars, nvars>>

\* the 'error' handler of the read stream
ReadError ==
    /\ hPc = "streaming"
    /\ IF ~HeadersSent
       THEN /\ written' = Append(written, 500)
            /\ contentType' = TextPlain
       ELSE UNCHANGED <<written, contentType>>
    /\ resEnded' = TRUE
    /\ readError' = TRUE
    /\ hPc' = "ended"
    /\ UNCHANGED <<reqUrl, reqMethod, statKind, filePath, piped, statCalls,
                   tvars, pvars, nvars>>

\* the read stream ends: the pipe ends the transform, which flushes, and
\* then the response
ReadEnd ==
    /\ hPc = "streaming"
    /\ pos = Len(input)
    /\ IF piped = "inject"
       THEN LET r == FlushStep(buffer, injected) IN
            /\ buffer' = r.buffer
            /\ injected' = r.injected
            /\ out' = out \o Utf8Encode(r.pushed)
       ELSE UNCHANGED <<buffer, injected, out>>
    /\ resEnded' = TRUE
    /\ hPc' = "ended"
    /\ UNCHANGED <<reqUrl, reqMethod, statKind, filePath, written, contentType,
                   piped, readError, statCalls, input, pos, phase, flips,
                   splitChar, pvars, nvars>>

\* the response is complete and the server waits for the next request
Finish ==
    /\ hPc = "ended"
    /\ hPc' = "idle"
    /\ reqUrl' = <<>>
    /\ reqMethod' = "GET"
    /\ statKind' = "none"
    /\ filePath' = <<>>
    /\ written' = <<>>
    /\ contentType' = <<>>
    /\ resEnded' = FALSE
    /\ piped' = "none"
    /\ readError' = FALSE
    /\ statCalls' = 0
    /\ input' = <<>>
    /\ pos' = 0
    /\ buffer' = <<>>
    /\ injected' = FALSE
    /\ out' = <<>>
    /\ splitChar' = FALSE
    /\ UNCHANGED <<phase, flips>>
    /\ UNCHANGED <<pvars, nvars>>

\* the requests the server can receive: the HTTP parser hands the handler
\* origin-form targets, which start with a slash; the empty target stands
\* for a request whose url is missing
Receive ==
    /\ hPc = "idle"
    /\ \E method \in Methods, kind \in StatKinds :
         \/ Request(<<>>, method, kind)
         \/ \E n \in 0..(MaxUrlLen - 1) : \E rest \in [1..n -> PathChars] :
              Request(<<"/">> \o rest, method, kind)
         \/ \E url \in SampleUrls : Request(url, method, kind)

HttpNext ==
    \/ Receive
    \/ StatCallback
    \/ \E n \in 1..MaxChunk : ReadChunk(n)
    \/ ReadError
    \/ ReadEnd
    \/ Finish

InitHttp == HttpInit /\ TransformIdle /\ PathIdle /\ NotifyIdle

SpecHttp == InitHttp /\ [][HttpNext]_vars

----------------------------------------------------------------------------
(* Claims about the request handler *)

\* the location the request target names: the normalized join of the
\* decoded, query-stripped target onto the served root
Location == Candidate(reqUrl)

OutsideRoot(p) ==
    /\ ~LexicallyInside(p)
    /\ p # TARGET_DIR
    /\ p # TARGET_DIR \o <<"/">>

\* C6: the status of a response is the one the request determines: 400
\* without a target, 405 for a method other than GET, 403 for a GET that
\* names a location outside the root, 404 for a GET of a location inside the
\* root that holds no regular file, and 200 with the content type of the
\* extension for a GET of a regular file inside the root.
C6_StatusByInputs ==
    hPc \in {"streaming", "ended"} =>
        /\ Len(written) >= 1
        /\ (reqUrl = <<>> => written[1] = 400)
        /\ (reqUrl # <<>> /\ reqMethod # "GET" => written[1] = 405)
        /\ (reqUrl # <<>> /\ reqMethod = "GET" /\ OutsideRoot(Location)
              => written[1] = 403)
        /\ (reqUrl # <<>> /\ reqMethod = "GET" /\ LexicallyInside(Location)
              /\ statKind # "file" => written[1] = 404)
        /\ (reqUrl # <<>> /\ reqMethod = "GET" /\ LexicallyInside(Location)
              /\ statKind = "file"
              => /\ written[1] = 200
                 /\ contentType = MimeType(ToLowerCase(PathExtname(Location))))

\* The statement of C6 for the requests whose location has no segment that
\* begins with '..': this holds.
StatusLemma ==
    (hPc \in {"streaming", "ended"}
       /\ ~Includes(Location, <<"/", ".", ".">>)) => C6_StatusByInputs

\* C11: the injecting transform is in the pipeline of a 200 response
\* exactly when the lower-cased extension of the file is '.html', which is
\* exactly when the content type is HTML; for every other file the bytes
\* the response has received are the bytes the read stream has emitted,
\* unchanged and in order, and once the stream has ended without a failure
\* they are the bytes of the file.
C11_NonHtmlUntouched ==
    (hPc \in {"streaming", "ended"} /\ written = <<200>>) =>
        /\ (piped = "inject") =
             (ToLowerCase(PathExtname(Location)) = <<".", "h", "t", "m", "l">>)
        /\ (piped = "inject") = (contentType = "text/html; charset=utf-8")
        /\ piped \in {"inject", "raw"}
        /\ (contentType # "text/html; charset=utf-8" =>
              /\ out = SubSeq(input, 1, pos)
              /\ (hPc = "ended" /\ ~readError => out = input))

\* a PNG whose bytes include a two-byte sequence that two chunks split has
\* been delivered whole
C11_Witness ==
    /\ hPc = "ended"
    /\ ~readError
    /\ contentType = "image/png"
    /\ piped = "raw"
    /\ splitChar
    /\ Len(input) = 5
    /\ out = input

\* the head of the response is on the connection: writeHead only stores
\* the head, and the first write of body bytes sends it along
HeadOnConnection == out # <<>>

\* C13: a read failure that occurs before the response headers have been
\* sent is reported with status 500; one that occurs after they were sent
\* ends the response and writes no further body bytes to it.
C13_ReadFailure ==
    [][(hPc = "streaming" /\ readError') =>
          IF ~HeadOnConnection
          THEN written' = <<500>>
          ELSE /\ resEnded'
               /\ out' = out
               /\ written' = written]_vars

\* The part of C13 that holds: a read failure ends the response, writes no
\* status after the 200 and no body byte.
ReadFailureEndsResponse ==
    [][(hPc = "streaming" /\ readError') =>
          /\ resEnded'
          /\ out' = out
          /\ written' = written]_vars

\* C16: after any sequence of requests the server is still serving: no
\* request has moved it to a terminated or crashed state.
C16_StillServing == ~uncaught /\ hPc # "crashed"

\* The requests whose decoded path holds no NUL character leave the server
\* serving: this holds.
ServingWithoutNul ==
    ~Includes(reqUrl, <<"%", "0", "0">>) => (~uncaught /\ hPc # "crashed")

\* the handler has returned or thrown and no callback of the request is
\* pending
RequestOver == hPc \in {"ended", "crashed"}

\* C18: the status line of a response is written exactly once: never more
\* than one status is written to a response, after writeHead(200) no error
\* status is written to it, and no request ends without a status written.
C18_StatusOnce ==
    /\ Len(written) <= 1
    /\ (hPc = "streaming" \/ readError => written = <<200>>)
    /\ (RequestOver => Len(written) = 1)

\* The statement of C18 for the requests whose decoded path holds no NUL
\* character: this holds.
StatusOnceWithoutNul ==
    ~Includes(reqUrl, <<"%", "0", "0">>) => C18_StatusOnce

\* C19: the checks are made in the order missing target, method,
\* confinement, file existence, and the first that fails decides: a request
\* without a target gets 400 whatever its method, a request with a method
\* other than GET gets 405 wherever its path leads, a GET for a path
\* outside the root gets 403 whatever the file system holds there, and
\* fs.stat is called only for a GET that has passed the confinement check.
C19_CheckOrder ==
    hPc # "idle" =>
        /\ (reqUrl = <<>> => written = <<400>> /\ statCalls = 0)
        /\ (reqUrl # <<>> /\ reqMethod # "GET" =>
              written = <<405>> /\ statCalls = 0)
        /\ (reqUrl # <<>> /\ reqMethod = "GET" /\ OutsideRoot(Location) =>
              written = <<403>> /\ statCalls = 0)
        /\ (statCalls > 0 =>
              reqUrl # <<>> /\ reqMethod = "GET" /\ ~OutsideRoot(Location))
        /\ statCalls <= 1

\* a POST for a path outside the root, where a file exists, has been
\* answered 405
C19_Witness ==
    /\ hPc = "ended"
    /\ reqMethod = "POST"
    /\ OutsideRoot(Location)
    /\ statKind = "file"
    /\ written = <<405>>
    /\ statCalls = 0

\* a GET for a path outside the root, where a file exists, has been
\* answered 403 without a call of fs.stat
C19_WitnessForbidden ==
    /\ hPc = "ended"
    /\ reqMethod = "GET"
    /\ OutsideRoot(Location)
    /\ statKind = "file"
    /\ written = <<403>>
    /\ statCalls = 0

----------------------------------------------------------------------------
(* The reload clients, the watch callback and broadcastReload *)

MaxEvents == 2     \* watch events of one run

\* client.send('reload') of the ws library: on a socket that is not open the
\* call throws; on an open one the frame is written, and a connection that
\* no longer carries frames loses it without the call throwing (the write
\* error surfaces later, on the socket).
WsSend(state, up) ==
    IF state # "OPEN" THEN "throw"
    ELSE IF up THEN "delivered"
    ELSE "lost"

\* the loop that returns at the first client that is not open
RECURSIVE LoopStopsAtClosed(_, _, _, _, _, _)
LoopStopsAtClosed(order, i, rs, up, inb, sent) ==
    IF i > Len(order) \/ rs[order[i]] # "OPEN"
    THEN [inbox |-> inb, sent |-> sent, thrown |-> FALSE]
    ELSE LET c == order[i]
             r == WsSend(rs[c], up[c])
         IN  LoopStopsAtClosed(order, i + 1, rs, up,
                 IF r = "delivered"
                 THEN [inb EXCEPT ![c] = Append(@, "reload")] ELSE inb,
                 Append(sent, [client |-> c, outcome |-> r]))

\* the loop without the readyState test
RECURSIVE LoopSendsToAll(_, _, _, _, _, _)
LoopSendsToAll(order, i, rs, up, inb, sent) ==
    IF i > Len(order)
    THEN [inbox |-> inb, sent |-> sent, thrown |-> FALSE]
    ELSE LET c == order[i]
             r == WsSend(rs[c], up[c])
         IN  IF r = "throw"
             THEN [inbox |-> inb,
                   sent |-> Append(sent, [client |-> c, outcome |-> r]),
                   thrown |-> TRUE]
             ELSE LoopSendsToAll(order, i + 1, rs, up,
                      IF r = "delivered"
                      THEN [inb EXCEPT ![c] = Append(@, "reload")] ELSE inb,
                      Append(sent, [client |-> c, outcome |-> r]))

\* the for-of loop of broadcastReload from the i-th client on: the inboxes
\* and the send calls made so far are carried along; an exception thrown by
\* send ends the loop and leaves the function
RECURSIVE BroadcastLoop(_, _, _, _, _, _)
BroadcastLoop(order, i, rs, up, inb, sent) ==
    IF i > Len(order)
    THEN [inbox |-> inb, sent |-> sent, thrown |-> FALSE]
    ELSE LET c == order[i] IN
         IF rs[c] = "OPEN"
         THEN LET r == WsSend(rs[c], up[c]) IN
              IF r = "throw"
              THEN [inbox |-> inb,
                    sent |-> Append(sent, [client |-> c, outcome |-> r]),
                    thrown |-> TRUE]
              ELSE BroadcastLoop(order, i + 1, rs, up,
                       IF r = "delivered"
                       THEN [inb EXCEPT ![c] = Append(@, "reload")] ELSE inb,
                       Append(sent, [client |-> c, outcome |-> r]))
         ELSE BroadcastLoop(order, i + 1, rs, up, inb, sent)

BroadcastStopsAtClosed(order, rs, up, inb) ==
    LoopStopsAtClosed(order, 1, rs, up, inb, <<>>)

BroadcastNoGuard(order, rs, up, inb) ==
    LoopSendsToAll(order, 1, rs, up, inb, <<>>)

broadcastReload(order, rs, up, inb) ==
    BroadcastLoop(order, 1, rs, up, inb, <<>>)

NotifyInit ==
    /\ clients = <<>>
    /\ readyState = [c \in ClientIds |-> "NONE"]
    /\ linkUp = [c \in ClientIds |-> FALSE]
    /\ inbox = [c \in ClientIds |-> <<>>]
    /\ events = 0
    /\ broadcasts = 0
    /\ lastSent = <<>>
    /\ uncaught = FALSE
    /\ eventLog = <<>>

InRegistry(c) == \E i \in 1..Len(clients) : clients[i] = c

\* a browser tab connects: the ws server adds the open socket to wss.clients
\* (the sockets are numbered in the order in which they connect)
Connect(c) ==
    /\ ~uncaught
    /\ readyState[c] = "NONE"
    /\ \A d \in ClientIds : d < c => readyState[d] # "NONE"
    /\ clients' = Append(clients, c)
    /\ readyState' = [readyState EXCEPT ![c] = "OPEN"]
    /\ linkUp' = [linkUp EXCEPT ![c] = TRUE]
    /\ UNCHANGED <<inbox, events, broadcasts, lastSent, uncaught, eventLog,
                   tvars, pvars, hvars>>

\* the closing handshake of a client starts
StartClose(c) ==
    /\ ~uncaught
    /\ readyState[c] = "OPEN"
    /\ readyState' = [readyState EXCEPT ![c] = "CLOSING"]
    /\ linkUp' = [linkUp EXCEPT ![c] = FALSE]
    /\ UNCHANGED <<clients, inbox, events, broadcasts, lastSent, uncaught,
                   eventLog, tvars, pvars, hvars>>

\* the connection of a client stops carrying frames before the server has
\* seen it close
LinkDown(c) ==
    /\ ~uncaught
    /\ readyState[c] = "OPEN"
    /\ linkUp[c]
    /\ linkUp' = [linkUp EXCEPT ![c] = FALSE]
    /\ UNCHANGED <<clients, readyState, inbox, events, broadcasts, lastSent,
                   uncaught, eventLog, tvars, pvars, hvars>>

\* the socket of a client closes: the ws server removes it from wss.clients
Disconnect(c) ==
    /\ ~uncaught
    /\ readyState[c] \in {"OPEN", "CLOSING"}
    /\ clients' = SelectSeq(clients, LAMBDA x : x # c)
    /\ readyState' = [readyState EXCEPT ![c] = "CLOSED"]
    /\ linkUp' = [linkUp EXCEPT ![c] = FALSE]
    /\ UNCHANGED <<inbox, events, broadcasts, lastSent, uncaught, eventLog,
                   tvars, pvars, hvars>>

\* a callback that reloads on every watch event
ReloadsOnEveryEvent(eventType) == TRUE

\* the test of the watch callback
TriggersReload(eventType) == eventType = "change"

\* the callback of fs.watch
Watch(eventType) ==
    /\ ~uncaught
    /\ events < MaxEvents
    /\ events' = events + 1
    /\ eventLog' = Append(eventLog, eventType)
    /\ IF TriggersReload(eventType)
       THEN LET r == broadcastReload(clients, readyState, linkUp, inbox) IN
            /\ inbox' = r.inbox
            /\ lastSent' = r.sent
            /\ uncaught' = r.thrown
            /\ broadcasts' = broadcasts + 1
       ELSE UNCHANGED <<inbox, lastSent, uncaught, broadcasts>>
    /\ UNCHANGED <<clients, readyState, linkUp, tvars, pvars, hvars>>

NotifyNext ==
    \/ \E c \in ClientIds : Connect(c)
    \/ \E c \in ClientIds : StartClose(c)
    \/ \E c \in ClientIds : LinkDown(c)
    \/ \E c \in ClientIds : Disconnect(c)
    \/ \E eventType \in {"change", "rename"} : Watch(eventType)

InitNotify == NotifyInit /\ TransformIdle /\ PathIdle /\ HttpIdle

SpecNotify == InitNotify /\ [][NotifyNext]_vars

----------------------------------------------------------------------------
(* Claims about the broadcast *)

\* a registered client whose socket is open
Open(c) == InRegistry(c) /\ readyState[c] = "OPEN"

\* the send calls the last broadcast made for client c
SendsTo(sent, c) == {i \in 1..Len(sent) : sent[i].client = c}

\* C7: on a 'change' event every registered client that is open, and whose
\* connection is up, receives exactly the message 'reload', once; send is
\* called once for each open client and for no other; the registry and the
\* sockets' states are as before the broadcast.
C7_EveryOpenClientOnce ==
    [][broadcasts' = broadcasts + 1 =>
         /\ \A c \in ClientIds :
              /\ inbox'[c] = IF Open(c) /\ linkUp[c]
                             THEN Append(inbox[c], "reload") ELSE inbox[c]
              /\ Cardinality(SendsTo(lastSent', c)) = IF Open(c) THEN 1 ELSE 0
         /\ clients' = clients
         /\ readyState' = readyState]_vars

\* two open clients have received the reload of an event that a closing
\* client, registered before them, has not
C7_Witness ==
    /\ broadcasts >= 1
    /\ \E a, b, c \in ClientIds :
         /\ a # b
         /\ inbox[a] = <<"reload">>
         /\ inbox[b] = <<"reload">>
         /\ readyState[c] = "CLOSING"
         /\ inbox[c] = <<>>
         /\ Len(clients) = 3
         /\ clients[1] = c
         /\ Len(lastSent) = 2

\* C8: when a send of a broadcast fails, send is still called for every
\* other open client, and no exception leaves broadcastReload.
C8_FailureContained ==
    [][(/\ broadcasts' = broadcasts + 1
        /\ \E i \in 1..Len(lastSent') : lastSent'[i].outcome # "delivered")
       => /\ \A c \in ClientIds : Open(c) => SendsTo(lastSent', c) # {}
          /\ \A c \in ClientIds : Open(c) /\ linkUp[c]
                                    => inbox'[c] = Append(inbox[c], "reload")
          /\ ~uncaught']_vars

\* a broadcast in which the send to one client failed and the send to a
\* client after it was delivered
C8_Witness ==
    /\ broadcasts >= 1
    /\ ~uncaught
    /\ \E i, j \in 1..Len(lastSent) :
         /\ i < j
         /\ lastSent[i].outcome = "lost"
         /\ lastSent[j].outcome = "delivered"
         /\ inbox[lastSent[j].client] # <<>>

\* the number of 'change' events among the watch events so far
ChangeEvents == Cardinality({i \in 1..Len(eventLog) : eventLog[i] = "change"})

\* C14: every watch event of type 'change' triggers exactly one call of
\* broadcastReload and an event of any other type triggers none: the
\* broadcasts made are as many as the 'change' events received, and a
\* watch event adds one broadcast when it is a 'change' and none otherwise.
C14_OneBroadcastPerChange ==
    [][/\ broadcasts' = ChangeEvents'
       /\ events' = Len(eventLog')
       /\ (events' = events + 1 =>
             broadcasts' = broadcasts +
                 (IF eventLog'[events'] = "change" THEN 1 ELSE 0))]_vars

\* a burst of two 'change' events has produced two broadcasts, each of
\* which reached an open client
C14_Witness ==
    /\ eventLog = <<"change", "change">>
    /\ broadcasts = 2
    /\ \E c \in ClientIds : inbox[c] = <<"reload", "reload">>

\* Watch events, connects, closes and dead links leave the process running:
\* this holds.
ServingUnderReload == ~uncaught

=============================================================================
